---------------------------- MODULE Spec2Model ----------------------------
(***************************************************************************)
(* Course generation pipeline of Courses-Creator: the markdown parser      *)
(* (utils/markdown_parser.py) and the course generator that drives speech  *)
(* synthesis and video assembly for every parsed section                   *)
(* (pipeline/course_generator.py, tts_processor.py, video_assembler.py).   *)
(*                                                                         *)
(* Text is a sequence of one-character strings; None is the empty          *)
(* sequence and a present optional value x is <<x>>.                       *)
(***************************************************************************)
EXTENDS Integers, Sequences, FiniteSets, TLC

VARIABLES
  file,         \* the markdown file: [kind, text]
  options,      \* the options dict: [tts_type], None when the key is absent
  dir_ok,       \* whether output_dir exists and is writable
  pc,           \* position of generate_course / parse
  course_data,  \* optional result of MarkdownParser.parse
  course,       \* optional Course object of generate_course
  lessons,      \* the local list `lessons` of generate_course
  idx,          \* 1-based index of the section the for loop is at
  audio_path,   \* optional local `audio_path` of _generate_lesson
  calls,        \* history: the synthesis / assembly calls made, in order
  fs,           \* the set of file paths written so far
  raised,       \* the exception that left generate_course / parse, or "None"
  in_flight,    \* history: orders of the sections whose _generate_lesson
                \* has been started and has not ended
  jobs,         \* JobTracker: the stored Job of every job id, None if unknown
  reply,        \* JobTracker: the last call and what it answered
  enc,          \* FFmpegProcessor: one encoder operation and its subprocess
  runs,         \* two generate_course runs side by side: the state of each
  written       \* two runs: the pairs <<path, run>> of the files written

tracker_vars == <<jobs, reply>>
pair_vars == <<runs, written>>
pipeline_vars == <<file, options, dir_ok, pc, course_data, course, lessons,
                   idx, audio_path, calls, fs, raised, in_flight>>

vars == <<file, options, dir_ok, pc, course_data, course, lessons, idx,
          audio_path, calls, fs, raised, in_flight, jobs, reply, enc, runs,
          written>>

---------------------------------------------------------------------------
(* Bounds of the model *)

\* documents of the parser specification have at most this many lines
MaxLines == 3

\* documents of the pipeline specification have at most this many lines
MaxPipeLines == 3

---------------------------------------------------------------------------
(* Characters and Python string operations *)

NL == "\n"
TAB == "\t"

None == << >>
Some(x) == <<x>>

\* str.isspace() / regex \s, over the characters the model uses
IsSpace(c) == c \in {" ", TAB, NL}

Min(S) == CHOOSE x \in S : \A y \in S : x <= y
Max(S) == CHOOSE x \in S : \A y \in S : x >= y

\* s[i:] of Python, i zero-based
From(s, i) == SubSeq(s, i + 1, Len(s))

\* s[:i] of Python, i zero-based
Upto(s, i) == SubSeq(s, 1, i)

\* str.strip()
Strip(s) ==
  LET keep == {i \in 1..Len(s) : ~IsSpace(s[i])}
  IN  IF keep = {} THEN << >> ELSE SubSeq(s, Min(keep), Max(keep))

\* str.startswith(prefix)
StartsWith(s, prefix) ==
  /\ Len(s) >= Len(prefix)
  /\ SubSeq(s, 1, Len(prefix)) = prefix

\* str.split('\n')
RECURSIVE Split(_)
Split(s) ==
  LET nl == {i \in 1..Len(s) : s[i] = NL}
  IN  IF nl = {} THEN <<s>>
      ELSE <<SubSeq(s, 1, Min(nl) - 1)>> \o Split(SubSeq(s, Min(nl) + 1, Len(s)))

\* '\n'.join(lines)
RECURSIVE Join(_)
Join(ls) ==
  IF ls = << >> THEN << >>
  ELSE IF Len(ls) = 1 THEN ls[1]
  ELSE ls[1] \o <<NL>> \o Join(Tail(ls))

\* truth value of an optional string: None and "" are both false
Truthy(opt) == opt # None /\ opt[1] # << >>

---------------------------------------------------------------------------
(* header_pattern = re.compile(r'^#+\s+(.+)$', re.MULTILINE) *)

\* the end of the longest run of characters of `set` that starts at i
RECURSIVE RunEnd(_, _, _)
RunEnd(s, i, set) ==
  IF i <= Len(s) /\ s[i] \in set THEN RunEnd(s, i + 1, set) ELSE i

\* '.' matches everything but a newline; '$' matches at a newline or the end
RECURSIVE LineEnd(_, _)
LineEnd(s, i) ==
  IF i <= Len(s) /\ s[i] # NL THEN LineEnd(s, i + 1) ELSE i

\* \s+ is greedy and gives characters back one at a time until (.+) can
\* start: the largest k in lo..k at which a character other than newline
\* stands, 0 when there is none
RECURSIVE GroupStart(_, _, _)
GroupStart(s, k, lo) ==
  IF k < lo THEN 0
  ELSE IF k <= Len(s) /\ s[k] # NL THEN k
  ELSE GroupStart(s, k - 1, lo)

NoMatch == [start |-> 0, gstart |-> 0, gend |-> 0]

\* an attempt of the pattern at position i (1-based)
MatchAt(s, i) ==
  IF ~((i = 1 \/ s[i - 1] = NL) /\ s[i] = "#") THEN NoMatch
  ELSE LET j == RunEnd(s, i, {"#"})
           m == RunEnd(s, j, {" ", TAB, NL})
           k == IF m = j THEN 0 ELSE GroupStart(s, m, j + 1)
       IN  IF k = 0 THEN NoMatch
           ELSE [start |-> i, gstart |-> k, gend |-> LineEnd(s, k)]

\* header_pattern.search(content): the leftmost match
RECURSIVE SearchFrom(_, _)
SearchFrom(s, i) ==
  IF i > Len(s) THEN NoMatch
  ELSE IF MatchAt(s, i).start # 0 THEN MatchAt(s, i)
  ELSE SearchFrom(s, i + 1)

\* mutant: the pattern written with a single '#', r'^#\s+(.+)$', which
\* finds top-level headers only
RECURSIVE SearchTopLevelFrom(_, _)
SearchTopLevelFrom(s, i) ==
  IF i > Len(s) THEN NoMatch
  ELSE IF MatchAt(s, i).start # 0 /\ RunEnd(s, i, {"#"}) = i + 1
       THEN MatchAt(s, i)
  ELSE SearchTopLevelFrom(s, i + 1)

header_search_top_level(s) == SearchTopLevelFrom(s, 1)

header_search(s) == SearchFrom(s, 1)

\* match.group(1)
Group1(s, m) == SubSeq(s, m.gstart, m.gend - 1)

---------------------------------------------------------------------------
(* MarkdownParser *)

DefaultTitle ==
  <<"U", "n", "t", "i", "t", "l", "e", "d", " ", "C", "o", "u", "r", "s", "e">>

\* title of parse: the first header, or the default
extract_title(content) ==
  LET title_match == header_search(content)
  IN  IF title_match.start # 0 THEN Strip(Group1(content, title_match))
      ELSE DefaultTitle

\* mutant: line.startswith('## '), second-level headers start the sections
IsSectionHeader_level_two(line) == StartsWith(line, <<"#", "#", " ">>)

\* mutant: line.startswith('#'), a header of any level starts a section
IsSectionHeader_any_level(line) == StartsWith(line, <<"#">>)

\* a line that starts a section
IsSectionHeader(line) == StartsWith(line, <<"#", " ">>)

\* sections.append({...}) of the section being closed
SaveSection(st) ==
  Append(st.sections,
         [title   |-> st.current_section[1],
          content |-> Strip(Join(st.current_content)),
          order   |-> st.order])

\* mutant: `current_content = []` forgotten when a section starts
SectionStep_keeps_content(st, line) ==
  IF IsSectionHeader(line)
  THEN [sections        |-> IF Truthy(st.current_section) THEN SaveSection(st)
                            ELSE st.sections,
        order           |-> IF Truthy(st.current_section) THEN st.order + 1
                            ELSE st.order,
        current_section |-> Some(Strip(From(line, 2))),
        current_content |-> st.current_content]
  ELSE [st EXCEPT !.current_content =
          IF Truthy(st.current_section) THEN Append(@, line) ELSE @]

\* one iteration of `for line in lines`
SectionStep(st, line) ==
  IF IsSectionHeader(line)
  THEN [sections        |-> IF Truthy(st.current_section) THEN SaveSection(st)
                            ELSE st.sections,
        order           |-> IF Truthy(st.current_section) THEN st.order + 1
                            ELSE st.order,
        current_section |-> Some(Strip(From(line, 2))),
        current_content |-> << >>]
  ELSE [st EXCEPT !.current_content =
          IF Truthy(st.current_section) THEN Append(@, line) ELSE @]

RECURSIVE SectionLoop(_, _)
SectionLoop(st, lines) ==
  IF lines = << >> THEN st
  ELSE SectionLoop(SectionStep(st, Head(lines)), Tail(lines))

_extract_sections(content) ==
  LET st0 == [sections |-> << >>, current_section |-> None,
              current_content |-> << >>, order |-> 0]
      st  == SectionLoop(st0, Split(content))
  IN  IF Truthy(st.current_section) THEN SaveSection(st) ELSE st.sections

\* mutant: the whole trimmed text when there is no header
_extract_description_whole_text(content) ==
  LET first_header == header_search(content)
  IN  IF first_header.start # 0
      THEN Strip(Upto(content, first_header.start - 1))
      ELSE Strip(content)

\* mutant: content[:first_header.end()], the header line taken along
_extract_description_to_end(content) ==
  LET first_header == header_search(content)
  IN  IF first_header.start # 0
      THEN Strip(Upto(content, first_header.gend - 1))
      ELSE << >>

_extract_description(content) ==
  LET first_header == header_search(content)
  IN  IF first_header.start # 0
      THEN Strip(Upto(content, first_header.start - 1))
      ELSE << >>

_extract_metadata(content) ==
  [author |-> "Unknown", language |-> "en", tags |-> << >>]

\* the dict parse returns for a readable file
ParseResult(content) ==
  [title       |-> extract_title(content),
   description |-> _extract_description(content),
   sections    |-> _extract_sections(content),
   metadata    |-> _extract_metadata(content)]

\* the exception open() / f.read() raise for a file that is not text
ParseError(kind) ==
  IF kind = "missing" THEN "FileNotFoundError" ELSE "UnicodeDecodeError"

\* mutant: a document without sections is rejected
parse_rejects_no_sections(f) ==
  IF f.kind # "text" THEN [data |-> None, error |-> ParseError(f.kind)]
  ELSE IF ParseResult(f.text).sections = << >>
       THEN [data |-> None, error |-> "ValueError"]
  ELSE [data |-> Some(ParseResult(f.text)), error |-> "None"]

\* parse(file_path): the dict returned, or the exception raised by the read
parse(f) ==
  IF f.kind = "text" THEN [data |-> Some(ParseResult(f.text)), error |-> "None"]
  ELSE [data |-> None, error |-> ParseError(f.kind)]

---------------------------------------------------------------------------
(* CourseGenerator, TTSProcessor, VideoAssembler *)

\* hash(text): equal strings have equal hashes; two different strings are
\* taken to have different hashes
Hash(text) == text

\* Path(markdown_path).stem
FileStem == "doc"

\* options.get("tts_type", "bark")
TtsType(opts) == IF opts.tts_type = None THEN "bark" ELSE opts.tts_type[1]

\* output_path of _generate_bark_tts / _generate_speecht5_tts
BarkPath(text) == <<"/tmp/bark_audio_", Hash(text), ".wav">>
SpeechT5Path(text) == <<"/tmp/speecht5_audio_", Hash(text), ".wav">>

\* output_path of create_video
VideoPath(text_content) == <<"output_dir/video_", Hash(text_content), ".mp4">>

\* Course(...) of generate_course, lessons still empty
NewCourse(data) ==
  [id          |-> <<"course_", FileStem>>,
   title       |-> data.title,
   description |-> data.description,
   lessons     |-> << >>,
   metadata    |-> data.metadata]

\* mutant: Lesson(...) with the two references exchanged
NewLesson_swapped_refs(section, audio, video) ==
  [id        |-> <<"lesson_", Hash(section.content)>>,
   title     |-> section.title,
   content   |-> section.content,
   video_url |-> audio,
   audio_url |-> video,
   subtitles |-> << >>,
   order     |-> section.order]

\* Lesson(...) of _generate_lesson
NewLesson(section, audio, video) ==
  [id        |-> <<"lesson_", Hash(section.content)>>,
   title     |-> section.title,
   content   |-> section.content,
   video_url |-> video,
   audio_url |-> audio,
   subtitles |-> << >>,
   order     |-> section.order]

\* mutant: lessons.insert(0, lesson)
AppendLesson_in_front(ls, lesson) == <<lesson>> \o ls

\* lessons.append(lesson)
AppendLesson(ls, lesson) == Append(ls, lesson)

Sections == course_data[1].sections

---------------------------------------------------------------------------
(* Inputs *)

LineVocab ==
  { << >>,
    <<"a">>,
    <<" ", "b", " ">>,
    <<"#">>,
    <<"#", " ">>,
    <<"#", " ", " ">>,
    <<"#", " ", "a">>,
    <<"#", " ", " ", "b", " ">>,
    <<"#", "#", " ", "a">>,
    <<"#", TAB, "a">>,
    <<"#", "a">> }

PipeVocab ==
  { <<"a">>,
    <<"#", " ">>,
    <<"#", " ", "a">>,
    <<"#", " ", "b">>,
    <<"#", "#", " ", "a">> }

\* the documents of at most n lines over a set of lines
DocsOver(vocab, n) ==
  {Join(ls) : ls \in UNION {[1..k -> vocab] : k \in 0..n}}

ScenarioDoc ==
  <<
    "#", " ", "I", "n", "t", "r", "o", NL, "H", "e", "l", "l", "o", NL, "#", " ", "L", "e", "s",
    "s", "o", "n", " ", "A", NL, "B", "o", "d", "y", " ", "A", NL, "#", " ", "L", "e", "s", "s",
    "o", "n", " ", "B", NL, "B", "o", "d", "y", " ", "B"
  >>

TestCompleteFlowDoc ==
  <<
    "#", " ", "M", "y", " ", "T", "e", "s", "t", " ", "C", "o", "u", "r", "s", "e", NL, NL, "#",
    "#", " ", "L", "e", "s", "s", "o", "n", " ", "1", ":", " ", "I", "n", "t", "r", "o", "d",
    "u", "c", "t", "i", "o", "n", NL, "T", "h", "i", "s", " ", "i", "s", " ", "t", "h", "e",
    " ", "i", "n", "t", "r", "o", "d", "u", "c", "t", "i", "o", "n", " ", "t", "o", " ", "t",
    "h", "e", " ", "c", "o", "u", "r", "s", "e", ".", NL, NL, "#", "#", " ", "L", "e", "s", "s",
    "o", "n", " ", "2", ":", " ", "G", "e", "t", "t", "i", "n", "g", " ", "S", "t", "a", "r",
    "t", "e", "d", NL, "H", "e", "r", "e", "'", "s", " ", "h", "o", "w", " ", "t", "o", " ",
    "g", "e", "t", " ", "s", "t", "a", "r", "t", "e", "d", " ", "w", "i", "t", "h", " ", "t",
    "h", "e", " ", "t", "o", "p", "i", "c", ".", NL, NL, "#", "#", " ", "L", "e", "s", "s", "o",
    "n", " ", "3", ":", " ", "A", "d", "v", "a", "n", "c", "e", "d", " ", "T", "o", "p", "i",
    "c", "s", NL, "L", "e", "t", "'", "s", " ", "e", "x", "p", "l", "o", "r", "e", " ", "s",
    "o", "m", "e", " ", "a", "d", "v", "a", "n", "c", "e", "d", " ", "c", "o", "n", "c", "e",
    "p", "t", "s", ".", NL
  >>

TestDbCheckDoc ==
  <<
    "#", " ", "S", "i", "m", "p", "l", "e", " ", "T", "e", "s", "t", " ", "C", "o", "u", "r",
    "s", "e", NL, NL, "#", "#", " ", "L", "e", "s", "s", "o", "n", " ", "1", ":", " ", "B", "a",
    "s", "i", "c", " ", "I", "n", "t", "r", "o", "d", "u", "c", "t", "i", "o", "n", NL, "T",
    "h", "i", "s", " ", "i", "s", " ", "a", " ", "s", "i", "m", "p", "l", "e", " ", "t", "e",
    "s", "t", " ", "l", "e", "s", "s", "o", "n", ".", NL, NL, "#", "#", " ", "L", "e", "s", "s",
    "o", "n", " ", "2", ":", " ", "A", "n", "o", "t", "h", "e", "r", " ", "L", "e", "s", "s",
    "o", "n", NL, "T", "h", "i", "s", " ", "i", "s", " ", "a", "n", "o", "t", "h", "e", "r",
    " ", "t", "e", "s", "t", " ", "l", "e", "s", "s", "o", "n", ".", NL
  >>

TextFile(text) == [kind |-> "text", text |-> text]

\* files that are not text: no such file, or bytes that are not UTF-8
BadFiles ==
  {[kind |-> "missing", text |-> << >>], [kind |-> "undecodable", text |-> << >>]}

ParserFiles ==
  {TextFile(d) : d \in DocsOver(LineVocab, MaxLines)
                       \cup {ScenarioDoc, TestCompleteFlowDoc, TestDbCheckDoc}}
    \cup BadFiles

PipeFiles ==
  {TextFile(d) : d \in DocsOver(PipeVocab, MaxPipeLines)
                       \cup {ScenarioDoc, TestCompleteFlowDoc, TestDbCheckDoc}}
    \cup BadFiles

OptionsSet ==
  {[tts_type |-> t] : t \in {None, Some("bark"), Some("speecht5"), Some("gtts")}}

---------------------------------------------------------------------------
(* The parts a specification leaves aside *)

\* bound: the number of job ids the tracker can hand out
MaxJobs == 2

JobIds == 1..MaxJobs

\* no job has been created and no tracker call made
TrackerIdle ==
  /\ jobs = [id \in JobIds |-> None]
  /\ reply = [op |-> "none"]

\* no encoder operation has been called
EncoderIdle == enc = [pc |-> "idle"]

\* no pair of runs has been started
PairIdle ==
  /\ runs = << >>
  /\ written = {}

---------------------------------------------------------------------------
(* MarkdownParser.parse on its own *)

InitParser ==
  /\ file \in ParserFiles
  /\ options = [tts_type |-> None]
  /\ dir_ok = TRUE
  /\ pc = "parse"
  /\ course_data = None
  /\ course = None
  /\ lessons = << >>
  /\ idx = 1
  /\ audio_path = None
  /\ calls = << >>
  /\ fs = {}
  /\ raised = "None"
  /\ in_flight = {}
  /\ TrackerIdle
  /\ EncoderIdle
  /\ PairIdle

\* parse(file_path)
Parse ==
  /\ pc = "parse"
  /\ \/ /\ parse(file).error = "None"
        /\ course_data' = parse(file).data
        /\ pc' = "parsed"
        /\ UNCHANGED raised
     \/ /\ parse(file).error # "None"
        /\ raised' = parse(file).error
        /\ pc' = "raised"
        /\ UNCHANGED course_data
  /\ UNCHANGED <<file, options, dir_ok, course, lessons, idx, audio_path,
                 calls, fs, in_flight>>

NextParser == Parse /\ UNCHANGED <<tracker_vars, enc, pair_vars>>

SpecParser == InitParser /\ [][NextParser]_vars

---------------------------------------------------------------------------
(* CourseGenerator.generate_course *)

Init ==
  /\ file \in PipeFiles
  /\ options \in OptionsSet
  /\ dir_ok \in BOOLEAN
  /\ pc = "start"
  /\ course_data = None
  /\ course = None
  /\ lessons = << >>
  /\ idx = 1
  /\ audio_path = None
  /\ calls = << >>
  /\ fs = {}
  /\ raised = "None"
  /\ in_flight = {}
  /\ TrackerIdle
  /\ EncoderIdle
  /\ PairIdle

\* generate_course up to the for loop: parse, Course(...), lessons = []
StartCourse ==
  /\ pc = "start"
  /\ \/ /\ parse(file).error = "None"
        /\ course_data' = parse(file).data
        /\ course' = Some(NewCourse(parse(file).data[1]))
        /\ pc' = "loop"
        /\ UNCHANGED raised
     \/ /\ parse(file).error # "None"
        /\ raised' = parse(file).error
        /\ pc' = "raised"
        /\ UNCHANGED <<course_data, course>>
  /\ lessons' = << >>
  /\ idx' = 1
  /\ UNCHANGED <<file, options, dir_ok, audio_path, calls, fs, in_flight>>

\* the backends generate_audio knows
KnownBackends == {"bark", "speecht5"}

\* output_path of the backend generate_audio dispatches to
AudioPath(tts_type, text) ==
  IF tts_type = "bark" THEN BarkPath(text) ELSE SpeechT5Path(text)

\* `await self._generate_lesson(...)`: the loop starts the lesson of a
\* section and goes on only when it has ended
Launch(running, order) == running \cup {order}

\* mutant: the lesson is started as a task that the loop does not await
Retire_never(running, order) == running

Retire(running, order) == running \ {order}

\* the number of lessons generate_course has in progress at a time: one
\* awaited call per loop iteration
WorkerLimit == 1

\* one entry of the call history
Call(op, order, arg, ret) ==
  [op |-> op, order |-> order, arg |-> arg, ret |-> ret]

\* mutant: create_video returns the path of a file it has not written
write_text_skipped(files, path) == files

\* output_path.write_text(...) of create_video
write_text(files, path) == files \cup {path}

\* mutant: a section whose generate_audio fails is skipped and the loop
\* goes on with the next one
GenerateAudio_skips_failed ==
  /\ pc = "loop"
  /\ idx <= Len(Sections)
  /\ LET text == Sections[idx].content
         path == AudioPath(TtsType(options), text)
     IN  \/ /\ TtsType(options) \in KnownBackends
            /\ calls' = Append(calls, Call("generate_audio", idx - 1, None,
                                           Some(path)))
            /\ fs' = fs \cup {path}
            /\ audio_path' = Some(path)
            /\ pc' = "video"
            /\ in_flight' = Launch(in_flight, idx - 1)
            /\ UNCHANGED <<raised, idx>>
         \/ /\ calls' = Append(calls, Call("generate_audio", idx - 1, None,
                                           None))
            /\ idx' = idx + 1
            /\ UNCHANGED <<fs, audio_path, pc, in_flight, raised>>
  /\ UNCHANGED <<file, options, dir_ok, course_data, course, lessons>>

\* _generate_lesson up to the return of generate_audio
GenerateAudio ==
  /\ pc = "loop"
  /\ idx <= Len(Sections)
  /\ LET text == Sections[idx].content
     IN  \/ /\ TtsType(options) = "bark"
            /\ calls' = Append(calls, Call("generate_audio", idx - 1, None,
                                           Some(BarkPath(text))))
            /\ fs' = fs \cup {BarkPath(text)}
            /\ audio_path' = Some(BarkPath(text))
            /\ pc' = "video"
            /\ in_flight' = Launch(in_flight, idx - 1)
            /\ UNCHANGED raised
         \/ /\ TtsType(options) = "speecht5"
            /\ calls' = Append(calls, Call("generate_audio", idx - 1, None,
                                           Some(SpeechT5Path(text))))
            /\ fs' = fs \cup {SpeechT5Path(text)}
            /\ audio_path' = Some(SpeechT5Path(text))
            /\ pc' = "video"
            /\ in_flight' = Launch(in_flight, idx - 1)
            /\ UNCHANGED raised
         \/ /\ TtsType(options) \notin KnownBackends
            /\ calls' = Append(calls, Call("generate_audio", idx - 1, None,
                                           None))
            /\ raised' = "ValueError"
            /\ pc' = "raised"
            /\ in_flight' = Retire(Launch(in_flight, idx - 1), idx - 1)
            /\ UNCHANGED <<fs, audio_path>>
         \* Path(output_path).write_text fails: the file may or may not
         \* have been created
         \/ /\ TtsType(options) \in KnownBackends
            /\ calls' = Append(calls, Call("generate_audio", idx - 1, None,
                                           None))
            /\ raised' = "OSError"
            /\ pc' = "raised"
            /\ in_flight' = Retire(Launch(in_flight, idx - 1), idx - 1)
            /\ \E created \in BOOLEAN :
                 fs' = IF created
                       THEN fs \cup {AudioPath(TtsType(options), text)}
                       ELSE fs
            /\ UNCHANGED audio_path
  /\ UNCHANGED <<file, options, dir_ok, course_data, course, lessons, idx>>

\* the rest of _generate_lesson: create_video, Lesson(...), and the append
\* of the loop
CreateVideo ==
  /\ pc = "video"
  /\ LET section == Sections[idx]
         video   == VideoPath(section.content)
     IN  \/ /\ dir_ok
            /\ calls' = Append(calls, Call("create_video", idx - 1,
                                           audio_path, Some(video)))
            /\ fs' = write_text(fs, video)
            /\ lessons' = AppendLesson(lessons,
                                       NewLesson(section, audio_path[1], video))
            /\ idx' = idx + 1
            /\ audio_path' = None
            /\ pc' = "loop"
            /\ in_flight' = Retire(in_flight, idx - 1)
            /\ UNCHANGED raised
         \/ /\ ~dir_ok
            /\ calls' = Append(calls, Call("create_video", idx - 1,
                                           audio_path, None))
            /\ raised' = "FileNotFoundError"
            /\ pc' = "raised"
            /\ in_flight' = Retire(in_flight, idx - 1)
            /\ UNCHANGED <<fs, lessons, idx, audio_path>>
  /\ UNCHANGED <<file, options, dir_ok, course_data, course>>

\* course.lessons = lessons; _assemble_course; return course
FinishCourse ==
  /\ pc = "loop"
  /\ idx > Len(Sections)
  /\ course' = Some([course[1] EXCEPT !.lessons = lessons])
  /\ pc' = "returned"
  /\ UNCHANGED <<file, options, dir_ok, course_data, lessons, idx, audio_path,
                 calls, fs, raised, in_flight>>

Next ==
  \/ StartCourse /\ UNCHANGED <<tracker_vars, enc, pair_vars>>
  \/ GenerateAudio /\ UNCHANGED <<tracker_vars, enc, pair_vars>>
  \/ CreateVideo /\ UNCHANGED <<tracker_vars, enc, pair_vars>>
  \/ FinishCourse /\ UNCHANGED <<tracker_vars, enc, pair_vars>>

Spec == Init /\ [][Next]_vars

---------------------------------------------------------------------------
(* JobTracker: create, update, get *)

Terminal == {"completed", "failed"}

\* Job as created: queued, progress 0, no course, no error
NewJob ==
  [status |-> "queued", progress |-> 0, courseRef |-> None, error |-> None]

\* the status changes of the job state machine
LegalTransition(from, to) ==
  \/ from = "queued" /\ to = "running"
  \/ from = "running" /\ to \in {"running", "completed", "failed"}

\* the ids create has not handed out
FreeIds(reg) == {id \in DOMAIN reg : reg[id] = None}

\* create() -> jobId
create(reg) ==
  LET id == Min(FreeIds(reg))
  IN  [jobs |-> [reg EXCEPT ![id] = Some(NewJob)], id |-> id]

\* the stored Job after an accepted update: detail is the courseRef of a
\* completed job and the error of a failed one
Updated(job, progress, status, detail) ==
  [status    |-> status,
   progress  |-> progress,
   courseRef |-> IF status = "completed" THEN detail ELSE job.courseRef,
   error     |-> IF status = "failed" THEN detail ELSE job.error]

\* mutant: an update of a job in a terminal state is applied
update_overwrites_terminal(reg, id, progress, status, detail) ==
  IF id \notin DOMAIN reg \/ reg[id] = None
  THEN [jobs |-> reg, error |-> "NotFoundError"]
  ELSE [jobs  |-> [reg EXCEPT ![id] =
                     Some(Updated(reg[id][1], progress, status, detail))],
        error |-> "None"]

\* update(jobId, progress, status)
update(reg, id, progress, status, detail) ==
  IF id \notin DOMAIN reg \/ reg[id] = None
  THEN [jobs |-> reg, error |-> "NotFoundError"]
  ELSE IF reg[id][1].status \in Terminal
  THEN [jobs |-> reg, error |-> "InvalidTransitionError"]
  ELSE IF ~LegalTransition(reg[id][1].status, status)
  THEN [jobs |-> reg, error |-> "InvalidTransitionError"]
  ELSE [jobs  |-> [reg EXCEPT ![id] =
                     Some(Updated(reg[id][1], progress, status, detail))],
        error |-> "None"]

\* get(jobId) -> Job snapshot
get(reg, id) ==
  IF id \notin DOMAIN reg \/ reg[id] = None
  THEN [job |-> None, error |-> "NotFoundError"]
  ELSE [job |-> reg[id], error |-> "None"]

\* what a tracker call leaves in reply: the call, the stored Job it found
\* and the error it raised
Reply(op, id, before, error) ==
  [op |-> op, id |-> id, before |-> before, error |-> error]

---------------------------------------------------------------------------
(* The tracker under arbitrary calls *)

Statuses == {"queued", "running", "completed", "failed"}

\* the progress values and details the callers pass
ProgressValues == {0, 50, 100}
DetailOf(status) ==
  IF status = "completed" THEN Some("course_doc")
  ELSE IF status = "failed" THEN Some("error")
  ELSE None

\* the ids callers ask for: those create can hand out and one it never does
AskedIds == JobIds \cup {MaxJobs + 1}

Stored(reg, id) == IF id \in DOMAIN reg THEN reg[id] ELSE None

InitTracker ==
  /\ file = TextFile(ScenarioDoc)
  /\ options = [tts_type |-> None]
  /\ dir_ok = TRUE
  /\ pc = "start"
  /\ course_data = None
  /\ course = None
  /\ lessons = << >>
  /\ idx = 1
  /\ audio_path = None
  /\ calls = << >>
  /\ fs = {}
  /\ raised = "None"
  /\ in_flight = {}
  /\ TrackerIdle
  /\ EncoderIdle
  /\ PairIdle

TrackerCreate ==
  /\ FreeIds(jobs) # {}
  /\ jobs' = create(jobs).jobs
  /\ reply' = Reply("create", create(jobs).id, None, "None")
  /\ UNCHANGED <<pipeline_vars, enc, pair_vars>>

TrackerUpdate ==
  /\ \E id \in AskedIds, progress \in ProgressValues, status \in Statuses :
       LET r == update(jobs, id, progress, status, DetailOf(status))
       IN  /\ jobs' = r.jobs
           /\ reply' = Reply("update", id, Stored(jobs, id), r.error)
  /\ UNCHANGED <<pipeline_vars, enc, pair_vars>>

TrackerGet ==
  /\ \E id \in AskedIds :
       reply' = Reply("get", id, Stored(jobs, id), get(jobs, id).error)
  /\ UNCHANGED <<jobs, pipeline_vars, enc, pair_vars>>

NextTracker ==
  \/ TrackerCreate
  \/ TrackerUpdate
  \/ TrackerGet

SpecTracker == InitTracker /\ [][NextTracker]_vars

---------------------------------------------------------------------------
(* generate_course as a tracked job *)

\* the id create gives the one job of a run
JobId == 1

\* round(num / den), den > 0
Round(num, den) == (2 * num + den) \div (2 * den)

\* mutant: the share of the lessons still to make
JobProgress_remaining(completedLessons, totalSections) ==
  Round(100 * (totalSections - completedLessons), totalSections)

\* round(100 * completedLessons / totalSections)
JobProgress(completedLessons, totalSections) ==
  Round(100 * completedLessons, totalSections)

Running == jobs[JobId] # None /\ jobs[JobId][1].status = "running"

\* the generator reports a transition of its job to the tracker
Report(progress, status, detail) ==
  LET r == update(jobs, JobId, progress, status, detail)
  IN  /\ jobs' = r.jobs
      /\ reply' = Reply("update", JobId, jobs[JobId], r.error)

\* running -> failed: the error recorded, the progress left as it is
ReportFailed(error) == Report(jobs[JobId][1].progress, "failed", Some(error))

\* the request is accepted: the job is created, queued
JobAccept ==
  /\ pc = "start"
  /\ jobs[JobId] = None
  /\ jobs' = create(jobs).jobs
  /\ reply' = Reply("create", create(jobs).id, None, "None")
  /\ UNCHANGED <<pipeline_vars, enc, pair_vars>>

\* queued -> running: start of processing, progress 0
JobBegin ==
  /\ jobs[JobId] # None
  /\ jobs[JobId][1].status = "queued"
  /\ Report(0, "running", None)
  /\ UNCHANGED <<pipeline_vars, enc, pair_vars>>

JobStartCourse ==
  /\ Running
  /\ StartCourse
  /\ IF pc' = "raised" THEN ReportFailed(raised')
                       ELSE UNCHANGED tracker_vars
  /\ UNCHANGED <<enc, pair_vars>>

JobGenerateAudio ==
  /\ Running
  /\ GenerateAudio
  /\ IF pc' = "raised" THEN ReportFailed(raised')
                       ELSE UNCHANGED tracker_vars
  /\ UNCHANGED <<enc, pair_vars>>

\* running -> running after each lesson
JobCreateVideo ==
  /\ Running
  /\ CreateVideo
  /\ IF pc' = "raised"
     THEN ReportFailed(raised')
     ELSE Report(JobProgress(Len(lessons'), Len(Sections)), "running", None)
  /\ UNCHANGED <<enc, pair_vars>>

\* running -> completed: courseRef set
JobFinishCourse ==
  /\ Running
  /\ FinishCourse
  /\ Report(jobs[JobId][1].progress, "completed", Some(course'[1].id))
  /\ UNCHANGED <<enc, pair_vars>>

NextJob ==
  \/ JobAccept
  \/ JobBegin
  \/ JobStartCourse
  \/ JobGenerateAudio
  \/ JobCreateVideo
  \/ JobFinishCourse

SpecJob == Init /\ [][NextJob]_vars

---------------------------------------------------------------------------
(* FFmpegProcessor: one encoder operation *)

EncoderOps ==
  {"run_command", "combine_audio_video", "add_text_overlay", "mix_audio"}

\* the output_path arguments, and what a file at a path can be
OutputPaths == {"out.mp4", "mixed.aac"}
FileStates == {"absent", "empty", "nonempty"}

\* what the operation returns when run_command has returned
EncResult(op, output_path) ==
  IF op = "run_command" THEN "stdout" ELSE output_path

\* nothing has been called yet
InitEncoder == InitTracker

\* the operation is called and builds its command line
EncCall ==
  /\ enc.pc = "idle"
  /\ \E op \in EncoderOps, path \in OutputPaths, before \in FileStates :
       enc' = [pc          |-> "spawn",
               op          |-> op,
               output_path |-> path,
               out_file    |-> before,
               returncode  |-> None,
               result      |-> None,
               error       |-> "None"]
  /\ UNCHANGED <<pipeline_vars, tracker_vars, pair_vars>>

\* await asyncio.create_subprocess_exec(...): the process starts, or the
\* encoder binary cannot be started
Spawn ==
  /\ enc.pc = "spawn"
  /\ \/ enc' = [enc EXCEPT !.pc = "communicate"]
     \/ enc' = [enc EXCEPT !.pc = "raised", !.error = "FileNotFoundError"]
  /\ UNCHANGED <<pipeline_vars, tracker_vars, pair_vars>>

\* the encoder process ends, with some exit code and some output file
ProcessExits ==
  /\ enc.pc = "communicate"
  /\ enc.returncode = None
  /\ \E rc \in {0, 1}, out \in FileStates :
       enc' = [enc EXCEPT !.returncode = Some(rc), !.out_file = out]
  /\ UNCHANGED <<pipeline_vars, tracker_vars, pair_vars>>

\* await process.communicate() returns; run_command tests the exit code;
\* the operation returns
Resume ==
  /\ enc.pc = "communicate"
  /\ enc.returncode # None
  /\ \/ /\ enc.returncode[1] # 0
        /\ enc' = [enc EXCEPT !.pc = "raised", !.error = "RuntimeError"]
     \/ /\ enc.returncode[1] = 0
        /\ enc' = [enc EXCEPT
                     !.pc = "returned",
                     !.result = Some(EncResult(enc.op, enc.output_path))]
  /\ UNCHANGED <<pipeline_vars, tracker_vars, pair_vars>>

NextEncoder ==
  \/ EncCall
  \/ Spawn
  \/ ProcessExits
  \/ Resume

SpecEncoder == InitEncoder /\ [][NextEncoder]_vars

\* the event loop runs every step of the operation that can run; nothing
\* makes the encoder process end
SpecEncoderFair ==
  /\ SpecEncoder
  /\ WF_vars(EncCall)
  /\ WF_vars(Spawn)
  /\ WF_vars(Resume)

---------------------------------------------------------------------------
(* Two generate_course runs in one process *)

PairRuns == {1, 2}

\* bound: the lines of the documents of the two runs
MaxPairLines == 2

PairVocab ==
  { <<"#", " ", "a">>,
    <<"a">>,
    <<"b">> }

PairDocs == DocsOver(PairVocab, MaxPairLines)

PairOptions == {[tts_type |-> None], [tts_type |-> Some("speecht5")]}

\* the output_dir arguments
PairDirs == {"out_1", "out_2"}

\* output_path of create_video in a given output_dir
VideoPathIn(output_dir, text_content) ==
  <<output_dir, "/video_", Hash(text_content), ".mp4">>

\* a run as generate_course is called
NewRun(doc, opts, output_dir) ==
  [doc        |-> doc,
   options    |-> opts,
   output_dir |-> output_dir,
   pc         |-> "start",
   sections   |-> << >>,
   idx        |-> 1,
   audio_path |-> None,
   lessons    |-> << >>]

InitPair ==
  /\ file = TextFile(ScenarioDoc)
  /\ options = [tts_type |-> None]
  /\ dir_ok = TRUE
  /\ pc = "start"
  /\ course_data = None
  /\ course = None
  /\ lessons = << >>
  /\ idx = 1
  /\ audio_path = None
  /\ calls = << >>
  /\ fs = {}
  /\ raised = "None"
  /\ in_flight = {}
  /\ TrackerIdle
  /\ EncoderIdle
  /\ runs \in [PairRuns -> {NewRun(d, o, dir) :
                              d \in PairDocs, o \in PairOptions, dir \in PairDirs}]
  /\ written = {}

\* generate_course up to its first await that suspends: parse, and the
\* first generate_audio up to its asyncio.sleep; with no section it returns
PairStart(j) ==
  /\ runs[j].pc = "start"
  /\ LET sections == parse(TextFile(runs[j].doc)).data[1].sections
     IN  runs' = [runs EXCEPT ![j].sections = sections,
                              ![j].pc = IF sections = << >>
                                        THEN "returned" ELSE "tts_sleep"]
  /\ UNCHANGED <<written, pipeline_vars, tracker_vars, enc>>

\* the sleep of the backend ends: the audio file is written, generate_audio
\* returns, create_video runs up to its asyncio.sleep
PairAudioWake(j) ==
  /\ runs[j].pc = "tts_sleep"
  /\ LET text == runs[j].sections[runs[j].idx].content
         path == AudioPath(TtsType(runs[j].options), text)
     IN  /\ written' = written \cup {<<path, j>>}
         /\ runs' = [runs EXCEPT ![j].audio_path = Some(path),
                                  ![j].pc = "video_sleep"]
  /\ UNCHANGED <<pipeline_vars, tracker_vars, enc>>

\* the sleep of create_video ends: the video file is written, the Lesson
\* is made and appended, and the loop goes on up to the next sleep or to
\* the return
PairVideoWake(j) ==
  /\ runs[j].pc = "video_sleep"
  /\ LET section == runs[j].sections[runs[j].idx]
         video   == VideoPathIn(runs[j].output_dir, section.content)
     IN  /\ written' = written \cup {<<video, j>>}
         /\ runs' = [runs EXCEPT
                       ![j].lessons =
                         AppendLesson(@, NewLesson(section,
                                                   runs[j].audio_path[1], video)),
                       ![j].audio_path = None,
                       ![j].idx = @ + 1,
                       ![j].pc = IF runs[j].idx = Len(runs[j].sections)
                                 THEN "returned" ELSE "tts_sleep"]
  /\ UNCHANGED <<pipeline_vars, tracker_vars, enc>>

NextPair ==
  \/ \E j \in PairRuns : PairStart(j)
  \/ \E j \in PairRuns : PairAudioWake(j)
  \/ \E j \in PairRuns : PairVideoWake(j)

SpecPair == InitPair /\ [][NextPair]_vars

---------------------------------------------------------------------------
(* Vocabulary of the properties: the document read by position, not by   *)
(* the parser's own loop                                                 *)

Text == file.text
Parsed == course_data[1]

LineStartAt(s, i) == i = 1 \/ s[i - 1] = NL

\* the position of the newline that ends the line of position i, or Len + 1
EndOfLine(s, i) == Min({x \in i..Len(s) : s[x] = NL} \cup {Len(s) + 1})

\* the k-th smallest element of a set of integers
Kth(S, k) == CHOOSE x \in S : Cardinality({y \in S : y < x}) = k - 1

\* positions at which a top-level header line (a line starting "# ") starts
TopHeaders(s) ==
  {i \in 1..(Len(s) - 1) : LineStartAt(s, i) /\ s[i] = "#" /\ s[i + 1] = " "}

\* the title text of the top-level header line at position i
HeaderTitleAt(s, i) == Strip(SubSeq(s, i + 2, EndOfLine(s, i) - 1))

\* the top-level header lines whose title is not empty
TitledHeaders(s) == {i \in TopHeaders(s) : HeaderTitleAt(s, i) # << >>}

\* positions at which a header of any level starts: a line start, one or
\* more '#', one or more whitespace characters (line breaks included), and
\* then a character that is not a line break
AnyHeaders(s) ==
  {i \in 1..Len(s) :
     /\ LineStartAt(s, i)
     /\ s[i] = "#"
     /\ \E j \in (i + 1)..Len(s) :
          /\ \A x \in i..(j - 1) : s[x] = "#"
          /\ IsSpace(s[j])
          /\ \E k \in (j + 1)..Len(s) :
               /\ \A x \in j..(k - 1) : IsSpace(s[x])
               /\ s[k] # NL}

\* the text of the header of any level at position i: the rest of the line
\* on which the first character that is not whitespace follows the '#'s,
\* nothing when only whitespace follows them
AnyHeaderTitleAt(s, i) ==
  LET j     == Min({x \in i..Len(s) : s[x] # "#"})
      nonws == {x \in j..Len(s) : ~IsSpace(s[x])}
  IN  IF nonws = {} THEN << >>
      ELSE Strip(SubSeq(s, Min(nonws), EndOfLine(s, Min(nonws)) - 1))

\* the trimmed text before the first header of any level, empty without one
TextBeforeFirstHeader(s) ==
  IF AnyHeaders(s) = {} THEN << >>
  ELSE Strip(SubSeq(s, 1, Min(AnyHeaders(s)) - 1))

---------------------------------------------------------------------------
(* C1 *)

\* C1: parse returns exactly one section per top-level header line (a line
\* starting "# "), the i-th with order i and the title of the i-th such
\* header, also when a header's title is empty or whitespace only.
C1_OneSectionPerTopHeader ==
  pc = "parsed" =>
    LET H == TopHeaders(Text)
    IN  /\ Len(Parsed.sections) = Cardinality(H)
        /\ \A k \in 1..Len(Parsed.sections) :
             /\ Parsed.sections[k].order = k - 1
             /\ k <= Cardinality(H)
                  => Parsed.sections[k].title = HeaderTitleAt(Text, Kth(H, k))

---------------------------------------------------------------------------
(* C2 *)

NonBlank(s) == Strip(s) # << >>

\* every line that starts with '#' is a header in the plain sense: '#'s, a
\* space, and a title that is not blank on the same line
PlainHeaders(s) ==
  \A i \in 1..Len(s) :
    (LineStartAt(s, i) /\ s[i] = "#") =>
      LET j == Min({x \in i..Len(s) : s[x] # "#"} \cup {Len(s) + 1})
      IN  /\ j <= Len(s)
          /\ s[j] = " "
          /\ \E x \in (j + 1)..(EndOfLine(s, i) - 1) : ~IsSpace(s[x])

\* C2 as the specification states it: a non-blank text without a top-level
\* header line parses to no sections and to a non-empty description equal
\* to the whole trimmed text. (Stated for texts whose '#' lines are all
\* plain headers, where "header" has one reading.)
C2_DescriptionIsWholeText ==
  (pc = "parsed" /\ NonBlank(Text) /\ TopHeaders(Text) = {}
     /\ PlainHeaders(Text)) =>
    /\ Parsed.sections = << >>
    /\ Parsed.description # << >>
    /\ Parsed.description = Strip(Text)

\* C2, amended: a non-blank text without a top-level header line parses to
\* no sections, and its description is the trimmed text before the first
\* header of any level: empty when the text holds no header at all, and
\* never the whole trimmed text.
C2_DescriptionBeforeFirstHeader ==
  (pc = "parsed" /\ NonBlank(Text) /\ TopHeaders(Text) = {}) =>
    /\ Parsed.sections = << >>
    /\ Parsed.description = TextBeforeFirstHeader(Text)
    /\ AnyHeaders(Text) = {} => Parsed.description = << >>
    /\ Parsed.description # Strip(Text)

\* C2 witness: a parsed text without a top-level header whose description is
\* the text before a level-2 header, and not empty.
C2_Witness ==
  /\ pc = "parsed"
  /\ NonBlank(Text)
  /\ TopHeaders(Text) = {}
  /\ AnyHeaders(Text) # {}
  /\ Parsed.description # << >>

---------------------------------------------------------------------------
(* C3 *)

\* C3 as the specification states it: the title is the text of the first
\* top-level header, also when a deeper header stands before it, and the
\* default title when there is no top-level header. (Stated for texts
\* whose '#' lines are all plain headers, where "header" has one reading.)
C3_TitleIsFirstTopHeader ==
  (pc = "parsed" /\ PlainHeaders(Text)) =>
    Parsed.title = IF TopHeaders(Text) = {} THEN DefaultTitle
                   ELSE HeaderTitleAt(Text, Min(TopHeaders(Text)))

\* C3, amended: the title is the trimmed text of the first header of any
\* level, so a deeper header standing before the first top-level header
\* gives the title; it is the default title when the text holds no header
\* of any level.
C3_TitleIsFirstHeaderOfAnyLevel ==
  pc = "parsed" =>
    Parsed.title = IF AnyHeaders(Text) = {} THEN DefaultTitle
                   ELSE AnyHeaderTitleAt(Text, Min(AnyHeaders(Text)))

\* C3 witness: a parsed text whose first header is deeper than level 1 and
\* stands before a top-level header with another title.
C3_Witness ==
  /\ pc = "parsed"
  /\ TopHeaders(Text) # {}
  /\ AnyHeaders(Text) # {}
  /\ Min(AnyHeaders(Text)) < Min(TopHeaders(Text))
  /\ Text[Min(AnyHeaders(Text)) + 1] = "#"
  /\ Parsed.title # HeaderTitleAt(Text, Min(TopHeaders(Text)))

---------------------------------------------------------------------------
(* C4 *)

\* C4 as the specification states it: when the text has a top-level header,
\* the description is the trimmed text before the first top-level header,
\* level-2 header lines before it included. (Stated for texts whose '#'
\* lines are all plain headers, where "header" has one reading.)
C4_DescriptionBeforeTopHeader ==
  (pc = "parsed" /\ TopHeaders(Text) # {} /\ PlainHeaders(Text)) =>
    Parsed.description = Strip(SubSeq(Text, 1, Min(TopHeaders(Text)) - 1))

\* C4, amended: when the text has a top-level header, the description is
\* the trimmed text before the first header of any level, so it stops at a
\* level-2 header standing before the first top-level header; it is empty
\* when the text holds no header of any level (a top-level header line with
\* an empty title need not be one).
C4_DescriptionStopsAtAnyHeader ==
  (pc = "parsed" /\ TopHeaders(Text) # {}) =>
    Parsed.description = TextBeforeFirstHeader(Text)

\* C4 witness: a parsed text with plain text, then a level-2 header, then a
\* top-level header; the description is the plain text only.
C4_Witness ==
  /\ pc = "parsed"
  /\ TopHeaders(Text) # {}
  /\ AnyHeaders(Text) # {}
  /\ Min(AnyHeaders(Text)) < Min(TopHeaders(Text))
  /\ Parsed.description # << >>
  /\ Parsed.description # Strip(SubSeq(Text, 1, Min(TopHeaders(Text)) - 1))

---------------------------------------------------------------------------
(* C5 *)

\* the position of the first top-level header line after position h, or
\* two past the end of the text
NextTopHeader(s, h) ==
  LET later == {x \in TopHeaders(s) : x > h}
  IN  IF later = {} THEN Len(s) + 2 ELSE Min(later)

\* the trimmed lines strictly between the header line at h and the next
\* top-level header line
BodyAfter(s, h) ==
  Strip(SubSeq(s, EndOfLine(s, h) + 1, NextTopHeader(s, h) - 2))

\* C5: the returned sections are those of the top-level headers with a
\* title, in order, and each one's body is the trimmed join of the lines
\* strictly between its header and the next top-level header or the end of
\* the text; a header of level 2 or more neither starts nor ends a section
\* and stays in the body, and no line is in two bodies.
C5_BodyBetweenTopHeaders ==
  pc = "parsed" =>
    LET T == TitledHeaders(Text)
    IN  /\ Len(Parsed.sections) = Cardinality(T)
        /\ \A k \in 1..Len(Parsed.sections) :
             /\ Parsed.sections[k].title = HeaderTitleAt(Text, Kth(T, k))
             /\ Parsed.sections[k].content = BodyAfter(Text, Kth(T, k))

\* C5 witness: a parsed text in which a section that is not the last has a
\* level-2 header line in its body.
C5_Witness ==
  /\ pc = "parsed"
  /\ \E k \in 1..(Len(Parsed.sections) - 1) :
       LET body == Parsed.sections[k].content
       IN  \E i \in 1..(Len(body) - 1) :
             LineStartAt(body, i) /\ body[i] = "#" /\ body[i + 1] = "#"

---------------------------------------------------------------------------
(* C6 *)

Intro == <<"I", "n", "t", "r", "o">>
LessonA == <<"L", "e", "s", "s", "o", "n", " ", "A">>
LessonB == <<"L", "e", "s", "s", "o", "n", " ", "B">>
Hello == <<"H", "e", "l", "l", "o">>
BodyA == <<"B", "o", "d", "y", " ", "A">>
BodyB == <<"B", "o", "d", "y", " ", "B">>

Titles(secs) == [k \in 1..Len(secs) |-> secs[k].title]
Bodies(secs) == [k \in 1..Len(secs) |-> secs[k].content]

\* C6 as the specification states it: the scenario document parses to three
\* sections Intro, Lesson A, Lesson B with bodies "", "Body A", "Body B".
C6_ScenarioFirstBodyEmpty ==
  (pc = "parsed" /\ Text = ScenarioDoc) =>
    /\ Titles(Parsed.sections) = <<Intro, LessonA, LessonB>>
    /\ Bodies(Parsed.sections) = << << >>, BodyA, BodyB >>

\* C6, amended: the scenario document parses to three sections Intro,
\* Lesson A, Lesson B with bodies "Hello", "Body A", "Body B"; the line
\* after the first header is that section's body, and the description is
\* empty.
C6_ScenarioBodies ==
  (pc = "parsed" /\ Text = ScenarioDoc) =>
    /\ Titles(Parsed.sections) = <<Intro, LessonA, LessonB>>
    /\ Bodies(Parsed.sections) = <<Hello, BodyA, BodyB>>
    /\ Parsed.description = << >>

\* C6 witness: the scenario document has been parsed.
C6_Witness == pc = "parsed" /\ Text = ScenarioDoc /\ Len(Parsed.sections) = 3

---------------------------------------------------------------------------
(* C7 *)

\* a line without its header marker and surrounding whitespace
DropMarker(line) ==
  LET text == {i \in 1..Len(line) : line[i] # "#" /\ ~IsSpace(line[i])}
      ink  == {i \in 1..Len(line) : ~IsSpace(line[i])}
  IN  IF text = {} THEN << >> ELSE SubSeq(line, Min(text), Max(ink))

NotEmpty(line) == line # << >>

\* the contents of the non-blank lines of a text, header markers removed
LineContents(s) ==
  LET ls == Split(s)
  IN  SelectSeq([i \in 1..Len(ls) |-> DropMarker(ls[i])], NotEmpty)

RECURSIVE TitlesAndBodies(_)
TitlesAndBodies(secs) ==
  IF secs = << >> THEN << >>
  ELSE <<secs[1].title, secs[1].content>> \o TitlesAndBodies(Tail(secs))

\* description, then every section's title and body, in order
Rebuilt(data) == Join(<<data.description>> \o TitlesAndBodies(data.sections))

\* C7: the description followed by every section's title and body has the
\* same non-blank line contents, in the same order, as the document with
\* its header markers removed: no line is lost and none comes twice.
\* (Stated for texts that begin with a top-level header with a title: there
\* no text stands before the first header, so what is lost is lost by the
\* section loop alone.)
C7_RoundTrip ==
  (pc = "parsed" /\ 1 \in TitledHeaders(Text)) =>
    LineContents(Rebuilt(Parsed)) = LineContents(Text)

---------------------------------------------------------------------------
(* C8 *)

Returned == course[1]

\* positions at which a second-level header line (a line starting "## ")
\* starts
SubHeaders(s) ==
  {i \in 1..(Len(s) - 2) :
     LineStartAt(s, i) /\ s[i] = "#" /\ s[i + 1] = "#" /\ s[i + 2] = " "}

\* the shape of the documents the test requests submit: one leading '#'
\* title header, then K = 2 or 3 second-level headers, all with titles
TitleThenLessons(s) ==
  /\ TopHeaders(s) = {1}
  /\ PlainHeaders(s)
  /\ Cardinality(SubHeaders(s)) \in {2, 3}

\* C8 as the specification states it: for a document of one leading '#'
\* title header followed by K '##' headers, the '#' header is the course
\* title and the course has exactly K lessons, one per '##' header, in
\* document order.
C8_OneLessonPerSubHeader ==
  (pc = "returned" /\ TitleThenLessons(Text)) =>
    /\ Returned.title = HeaderTitleAt(Text, 1)
    /\ Len(Returned.lessons) = Cardinality(SubHeaders(Text))
    /\ \A k \in 1..Len(Returned.lessons) :
         k <= Cardinality(SubHeaders(Text)) =>
           Returned.lessons[k].title
             = AnyHeaderTitleAt(Text, Kth(SubHeaders(Text), k))

\* C8, amended: for such a document the '#' header is the course title and
\* the only section boundary: the course has exactly one lesson, with the
\* course's title, and its content is the trimmed text after the title
\* line, the K '##' header lines and their text included.
C8_OneLessonHoldsSubHeaders ==
  (pc = "returned" /\ TitleThenLessons(Text)) =>
    /\ Returned.title = HeaderTitleAt(Text, 1)
    /\ Len(Returned.lessons) = 1
    /\ Returned.lessons[1].title = Returned.title
    /\ Returned.lessons[1].content = BodyAfter(Text, 1)
    /\ Cardinality(SubHeaders(<<NL>> \o Returned.lessons[1].content))
         = Cardinality(SubHeaders(Text))

\* C8 witness: the course of the document test_complete_flow submits has
\* been returned.
C8_Witness ==
  /\ pc = "returned"
  /\ Text = TestCompleteFlowDoc
  /\ Cardinality(SubHeaders(Text)) = 3

---------------------------------------------------------------------------
(* C9 *)

\* the read of the markdown file is what made generate_course fail
ParseFailed == pc = "raised" /\ course_data = None

\* C9: parse fails for no text, whatever its structure (empty, without
\* headers, with sub-headers only, with empty titles, with consecutive
\* headers): once generate_course is past the parse of a text file there is
\* a result with the four fields title, description, sections, metadata;
\* parse fails only for a file that cannot be read as text, and then no
\* synthesis or assembly call has been made and no file written.
C9_ParseFailsOnlyOnUnreadableInput ==
  /\ (pc # "start" /\ file.kind = "text") =>
       /\ ~ParseFailed
       /\ course_data # None
       /\ DOMAIN Parsed = {"title", "description", "sections", "metadata"}
  /\ ParseFailed =>
       /\ file.kind # "text"
       /\ calls = << >>
       /\ fs = {}

\* C9 witness: generate_course has failed in the parse of a file that is
\* not text, before any call.
C9_Witness ==
  /\ ParseFailed
  /\ file.kind = "undecodable"
  /\ raised = "UnicodeDecodeError"
  /\ calls = << >>

---------------------------------------------------------------------------
(* C10 *)

\* C10: a returned Course has exactly one lesson per parsed section, the
\* i-th lesson made of the i-th section and with order i, counted from 0,
\* so the lessons are sorted by order; the calls completed in that order.
C10_LessonsInSectionOrder ==
  pc = "returned" =>
    /\ Len(Returned.lessons) = Len(Sections)
    /\ \A i \in 1..Len(Returned.lessons) :
         /\ Returned.lessons[i].order = i - 1
         /\ Returned.lessons[i].order = Sections[i].order
         /\ Returned.lessons[i].title = Sections[i].title
         /\ Returned.lessons[i].content = Sections[i].content
    /\ \A i, j \in 1..Len(Returned.lessons) :
         i < j => Returned.lessons[i].order < Returned.lessons[j].order

\* C10 witness: a Course with three lessons has been returned.
C10_Witness ==
  /\ pc = "returned"
  /\ Len(Returned.lessons) = 3
  /\ Len(calls) = 6

---------------------------------------------------------------------------
(* C11 *)

LastCall == calls[Len(calls)]

\* the last thing that happened is a generate_audio call that returned no
\* audio reference
SynthesisFailed ==
  /\ calls # << >>
  /\ LastCall.op = "generate_audio"
  /\ LastCall.ret = None

\* C11: when generate_audio fails for a section, generate_course ends with
\* the exception of that call: the error is recorded, no Course is
\* returned, the lessons made so far are never put into the Course, no call
\* is made for a later section and no create_video for the failing one,
\* and nothing more happens in the run.
C11_FailFast ==
  SynthesisFailed =>
    /\ pc = "raised"
    /\ raised \in {"ValueError", "OSError"}
    /\ Returned.lessons = << >>
    /\ \A i \in 1..Len(calls) : calls[i].order <= LastCall.order
    /\ \A i \in 1..Len(calls) :
         calls[i].op = "create_video" => calls[i].order < LastCall.order
    /\ ~ENABLED Next

\* C11 witness: generate_audio has failed for the second of three sections,
\* after the lesson of the first one was made.
C11_Witness ==
  /\ SynthesisFailed
  /\ Len(Sections) = 3
  /\ LastCall.order = 1
  /\ Len(lessons) = 1
  /\ pc = "raised"

---------------------------------------------------------------------------
(* C14 *)

\* C14: the lessons in progress at any moment of a generate_course run are
\* at most WorkerLimit, whatever the number of sections.
C14_BoundedInFlight == Cardinality(in_flight) <= WorkerLimit

\* C14 witness: the lesson of the third of three sections is in progress.
C14_Witness ==
  /\ pc = "video"
  /\ Len(Sections) = 3
  /\ in_flight = {2}

---------------------------------------------------------------------------
(* C15 *)

\* C15: generate_audio fails with SynthesisError when the backend hint
\* names none of the known backends.
C15_FailsWithSynthesisError ==
  (SynthesisFailed /\ TtsType(options) \notin KnownBackends) =>
    raised = "SynthesisError"

\* the backend the options name: "bark" when they name none
Chosen ==
  IF options.tts_type = None THEN "bark" ELSE options.tts_type[1]

\* what generate_audio does instead, and the rest of C15: it fails with
\* ValueError for a backend hint that names no known backend, and then no
\* audio file has been written and no reference returned; with a known
\* backend or none it fails only when the
\* write of the audio file fails (OSError), again without a reference.
\* Every generate_audio call that returns gives the path of the one backend
\* the options name (bark when none), and no file of the other backend is
\* written.
C15_FailsWithValueError ==
  /\ SynthesisFailed =>
       /\ audio_path = None
       /\ raised = (IF Chosen \in {"bark", "speecht5"}
                    THEN "OSError" ELSE "ValueError")
  /\ (SynthesisFailed /\ Chosen \notin {"bark", "speecht5"}) => fs = {}
  /\ \A i \in 1..Len(calls) :
       (calls[i].op = "generate_audio" /\ calls[i].ret # None) =>
         LET text == Sections[calls[i].order + 1].content
         IN  /\ Chosen = "bark" =>
                  /\ calls[i].ret = Some(<<"/tmp/bark_audio_", text, ".wav">>)
                  /\ <<"/tmp/speecht5_audio_", text, ".wav">> \notin fs
             /\ Chosen = "speecht5" =>
                  /\ calls[i].ret =
                       Some(<<"/tmp/speecht5_audio_", text, ".wav">>)
                  /\ <<"/tmp/bark_audio_", text, ".wav">> \notin fs
             /\ Chosen \in {"bark", "speecht5"}

\* generate_audio has failed for the hint "gtts".
C15_UnknownHintReached ==
  /\ SynthesisFailed
  /\ options.tts_type = Some("gtts")
  /\ raised = "ValueError"

---------------------------------------------------------------------------
(* C16 *)

EncEnded == enc.pc \in {"returned", "raised"}

\* C16: an encoder operation returns only when the process has exited with
\* code 0 and the output file is not empty; when the process exits with
\* another code, or leaves no output or an empty one, the operation fails
\* and returns nothing.
C16_ReturnsOnlyWithOutput ==
  /\ enc.pc = "returned" =>
       /\ enc.returncode = Some(0)
       /\ enc.out_file = "nonempty"
  /\ (/\ EncEnded
      /\ enc.returncode # None
      /\ (enc.returncode # Some(0) \/ enc.out_file # "nonempty")) =>
       /\ enc.pc = "raised"
       /\ enc.result = None

\* the part of C16 that the code keeps: a process that exits with a code
\* other than 0 makes the operation fail with RuntimeError, without a path.
C16_NonZeroExitFails ==
  (EncEnded /\ enc.returncode # None /\ enc.returncode # Some(0)) =>
    /\ enc.pc = "raised"
    /\ enc.error = "RuntimeError"
    /\ enc.result = None

---------------------------------------------------------------------------
(* C17 *)

\* C17: an operation that waits for the encoder process ends, by a return
\* or by an error, also when the process never exits.
C17_EveryCallEnds == (enc.pc = "communicate") ~> EncEnded

\* as long as the process has not exited, the operation can make no step:
\* no timeout ends the wait.
C17_WaitHasNoTimeout ==
  (enc.pc = "communicate" /\ enc.returncode = None) => ~ENABLED Resume

---------------------------------------------------------------------------
(* C18 *)

\* C18: every create_video call comes directly after the generate_audio
\* call of the same section and is given the reference that call returned;
\* the k-th lesson exists once the k-th pair of calls has returned, with
\* the two returned references, the body of the section as content and
\* the order of the section.
C18_LessonSteps ==
  /\ \A i \in 1..Len(calls) :
       calls[i].op = "create_video" =>
         /\ i > 1
         /\ calls[i - 1].op = "generate_audio"
         /\ calls[i - 1].order = calls[i].order
         /\ calls[i - 1].ret # None
         /\ calls[i].arg = calls[i - 1].ret
  /\ Len(lessons) =
       Cardinality({i \in 1..Len(calls) :
                      calls[i].op = "create_video" /\ calls[i].ret # None})
  /\ \A k \in 1..Len(lessons) :
       /\ calls[2 * k - 1].op = "generate_audio"
       /\ calls[2 * k].op = "create_video"
       /\ calls[2 * k].order = Sections[k].order
       /\ lessons[k].audio_url = calls[2 * k - 1].ret[1]
       /\ lessons[k].video_url = calls[2 * k].ret[1]
       /\ lessons[k].content = Sections[k].content
       /\ lessons[k].order = Sections[k].order

\* C18 witness: the lesson of the second section has been made.
C18_Witness ==
  /\ Len(lessons) = 2
  /\ Len(calls) = 4
  /\ calls[4].op = "create_video"
  /\ calls[4].arg = calls[3].ret

---------------------------------------------------------------------------
(* C19 *)

\* C19: the file of every reference create_video has returned exists, so
\* does the video file of every lesson of a returned Course; when the
\* output directory cannot be written, create_video fails with the error
\* of the write and returns no reference.
C19_VideoFileExists ==
  /\ \A i \in 1..Len(calls) :
       (calls[i].op = "create_video" /\ calls[i].ret # None) =>
         calls[i].ret[1] \in fs
  /\ pc = "returned" =>
       \A k \in 1..Len(Returned.lessons) : Returned.lessons[k].video_url \in fs
  /\ \A i \in 1..Len(calls) :
       (calls[i].op = "create_video" /\ ~dir_ok) =>
         /\ calls[i].ret = None
         /\ pc = "raised"
         /\ raised = "FileNotFoundError"

\* C19 witness: a Course with two lessons has been returned and both video
\* files exist.
C19_Witness ==
  /\ pc = "returned"
  /\ Len(Returned.lessons) = 2
  /\ \A k \in 1..2 : Returned.lessons[k].video_url \in fs

\* C19 witness of the failure: create_video has failed in a directory that
\* cannot be written.
C19_FailureReached ==
  /\ ~dir_ok
  /\ calls # << >>
  /\ LastCall.op = "create_video"
  /\ LastCall.ret = None

---------------------------------------------------------------------------
(* C12 *)

Job == jobs[JobId][1]

\* what the stored job is in every state of a run
JobMatchesRun ==
  jobs[JobId] # None =>
    /\ Job.status \in {"queued", "running", "completed", "failed"}
    /\ Job.status = "queued" => Job.progress = 0 /\ pc = "start"
    /\ (Job.status = "running" /\ lessons = << >>) => Job.progress = 0
    /\ (Job.status = "running" /\ lessons # << >>) =>
         Job.progress =
           (200 * Len(lessons) + Len(Sections)) \div (2 * Len(Sections))
    /\ Job.status = "completed" <=> pc = "returned"
    /\ Job.status = "failed" <=> pc = "raised"
    /\ Job.status = "completed" =>
         Job.courseRef # None /\ Job.error = None
    /\ Job.status = "failed" =>
         Job.courseRef = None /\ Job.error = Some(raised)

\* what a step of a run may do to the stored job
JobStep ==
  /\ jobs[JobId] = None =>
       jobs'[JobId] = None \/ jobs'[JobId][1].status = "queued"
  /\ jobs[JobId] # None =>
       /\ jobs'[JobId] # None
       /\ jobs'[JobId][1].progress >= Job.progress
       /\ jobs'[JobId][1].status # Job.status =>
            \/ Job.status = "queued" /\ jobs'[JobId][1].status = "running"
            \/ /\ Job.status = "running"
               /\ jobs'[JobId][1].status \in {"completed", "failed"}
       /\ Job.status \in {"completed", "failed"} => jobs'[JobId] = jobs[JobId]

\* C12: over a run of generate_course the status of the job goes only
\* queued -> running -> completed or failed, the progress never decreases
\* and is round(100 * k / n) after k of n lessons, and a job that has a
\* terminal status never changes again.
C12_JobLifecycle == []JobMatchesRun /\ [][JobStep]_vars

\* C12 witness: the job of a document of three sections is completed with
\* progress 100.
C12_Witness ==
  /\ jobs[JobId] # None
  /\ Job.status = "completed"
  /\ Job.progress = 100
  /\ Len(lessons) = 3

\* C12 witness of the progress: one of three lessons is made.
C12_ProgressReached ==
  /\ jobs[JobId] # None
  /\ Job.status = "running"
  /\ Job.progress = 33
  /\ Len(lessons) = 1

---------------------------------------------------------------------------
(* C13 *)

\* C13: an update of a job that is completed or failed is answered with
\* InvalidTransitionError and the stored job (status, progress, courseRef,
\* error) is what it was before the call; a get or an update of an id no
\* job has is answered with NotFoundError.
C13_TerminalJobsRejectUpdates ==
  /\ (/\ reply.op = "update"
      /\ reply.before # None
      /\ reply.before[1].status \in Terminal) =>
       /\ reply.error = "InvalidTransitionError"
       /\ jobs[reply.id] = reply.before
  /\ (reply.op \in {"get", "update"} /\ reply.before = None) =>
       reply.error = "NotFoundError"

\* C13 witness: an update of a completed job has been rejected.
C13_Witness ==
  /\ reply.op = "update"
  /\ reply.before # None
  /\ reply.before[1].status = "completed"
  /\ reply.error = "InvalidTransitionError"

\* C13 witness of the lookup: a get of an unknown id has been answered
\* with NotFoundError.
C13_UnknownIdReached ==
  /\ reply.op = "get"
  /\ reply.before = None
  /\ reply.error = "NotFoundError"

---------------------------------------------------------------------------
(* C20 *)

\* the paths a run has written
WrittenBy(j) == {w[1] : w \in {x \in written : x[2] = j}}

\* the asset references a run holds: the audio reference in hand and the
\* references of its lessons
HeldBy(j) ==
  {runs[j].audio_path[i] : i \in 1..Len(runs[j].audio_path)}
    \cup {runs[j].lessons[k].audio_url : k \in 1..Len(runs[j].lessons)}
    \cup {runs[j].lessons[k].video_url : k \in 1..Len(runs[j].lessons)}

\* C20: two runs with output directories of their own share no asset: no
\* file is written by both, and no run writes a file the other one holds a
\* reference to.
C20_NoSharedAsset ==
  runs[1].output_dir # runs[2].output_dir =>
    /\ WrittenBy(1) \cap WrittenBy(2) = {}
    /\ WrittenBy(1) \cap HeldBy(2) = {}
    /\ WrittenBy(2) \cap HeldBy(1) = {}

---------------------------------------------------------------------------
(* C21 *)

\* C21: in a returned Course any two lessons with different order have
\* different ids, different audio references and different video
\* references, also when their sections have the same body text.
C21_LessonsDistinct ==
  pc = "returned" =>
    \A i, j \in 1..Len(Returned.lessons) :
      Returned.lessons[i].order # Returned.lessons[j].order =>
        /\ Returned.lessons[i].id # Returned.lessons[j].id
        /\ Returned.lessons[i].audio_url # Returned.lessons[j].audio_url
        /\ Returned.lessons[i].video_url # Returned.lessons[j].video_url

\* the part of C21 that the code keeps: lessons of sections with different
\* body text have different ids and references.
C21_DistinctBodiesDistinctAssets ==
  pc = "returned" =>
    \A i, j \in 1..Len(Returned.lessons) :
      Returned.lessons[i].content # Returned.lessons[j].content =>
        /\ Returned.lessons[i].id # Returned.lessons[j].id
        /\ Returned.lessons[i].audio_url # Returned.lessons[j].audio_url
        /\ Returned.lessons[i].video_url # Returned.lessons[j].video_url

=============================================================================
